---- MODULE Spec2Model ----
(***************************************************************************)
(* The chat endpoint of the AI writing tool (src/api/app.py) and the       *)
(* orchestrator behind it (src/api/agent.py).                              *)
(*                                                                         *)
(* JSON values are records with a tag k.  A Python dict or list lives on   *)
(* the heap under an address, and a dict holds references to its nested    *)
(* dicts and lists, so that dict.copy() (a shallow copy) and the sharing   *)
(* it leaves between the caller's project and the copy are visible.        *)
(***************************************************************************)
EXTENDS Integers, Sequences, FiniteSets, TLC

MaxSteps == 2
MaxOld == 1
MaxTurns == 2
MaxCalls == 2

ContentLimit == 1000

----------------------------------------------------------------------------
(* JSON values *)

Absent == [k |-> "absent"]
Null == [k |-> "null"]
EmptyStr == [k |-> "str", v |-> "", len |-> 0]
NonList == [k |-> "str", v |-> "oops", len |-> 4]
Num == [k |-> "num"]
Unhashable == [k |-> "list", items |-> <<>>]
Str(s) == [k |-> "str", v |-> s, len |-> 1]
List(items) == [k |-> "list", items |-> items]
Ref(a) == [k |-> "ref", a |-> a]
Free == [k |-> "free"]

\* Python truthiness of a JSON value: bool(x)
Truthy(x) ==
    CASE x.k = "absent" -> FALSE
      [] x.k = "null" -> FALSE
      [] x.k = "str" -> x.len > 0
      [] x.k = "list" -> Len(x.items) > 0
      [] OTHER -> TRUE

system_prompts == {"plan_organize", "write", "edit_revise"}

PhaseValues ==
    {Absent, Null, Num, Unhashable, Str("bogus")}
    \cup {Str(p) : p \in system_prompts}

UserIdea(i) ==
    [id |-> [prefix |-> "user_idea_", n |-> i], content |-> "mine",
     location |-> "outline", aiGenerated |-> FALSE]

UserSuggestion(i) ==
    [id |-> [prefix |-> "user_comment_", n |-> i], content |-> "mine",
     type |-> "comment", aiGenerated |-> FALSE]

OldMessage(i) ==
    [role |-> IF i % 2 = 1 THEN "user" ELSE "assistant", content |-> "earlier"]

\* The lists a project holds when the caller first sends it
IdeaLists == {List([i \in 1..n |-> UserIdea(i)]) : n \in 0..MaxOld}
SuggestionLists == {List([i \in 1..n |-> UserSuggestion(i)]) : n \in 0..MaxOld}
MessageLists == {List([i \in 1..n |-> OldMessage(i)]) : n \in 0..MaxOld}

PlanValues ==
    {Absent} \cup {[k |-> "dict", outline |-> Str("O"), ideas |-> l] :
                      l \in {Absent} \cup IdeaLists}

EditValues ==
    {Absent} \cup {[k |-> "dict", draft |-> Str("D"), suggestions |-> l] :
                      l \in {Absent} \cup SuggestionLists}

ChatValues == {Absent, Null, NonList} \cup MessageLists

\* The projects a caller sends to the chat endpoint
AllProjects ==
    [k : {"dict"}, title : {Str("T")}, description : {Absent}, brainstormIdeas : {Absent},
     outline : {Absent}, content : {Absent}, extra : {Str("X")},
     currentPhase : PhaseValues, plan : PlanValues, edit : EditValues,
     chatHistory : ChatValues]

\* The phase is read by _get_current_phase alone: every phase value comes with
\* every chat history, and the recognised phase "write" with every plan and edit
Projects ==
    {p \in AllProjects :
        \/ p.currentPhase = Str("write")
        \/ p.plan = Absent /\ p.edit = Absent}

\* The projects from which a caller goes on for several turns
SessionStarts ==
    {p \in Projects :
        /\ p.currentPhase = Str("write")
        /\ \/ /\ p.plan.k = "dict" /\ p.plan.ideas.k = "list"
              /\ Len(p.plan.ideas.items) = MaxOld
              /\ p.edit.k = "absent"
           \/ /\ p.plan.k = "absent"
              /\ p.edit.k = "dict" /\ p.edit.suggestions.k = "absent"
        /\ \/ p.chatHistory.k = "absent"
           \/ p.chatHistory.k = "list" /\ Len(p.chatHistory.items) = MaxOld}

\* A project for the requests the endpoint rejects without reading it
SomeProject == CHOOSE p \in Projects : p.chatHistory.k = "list"

----------------------------------------------------------------------------
(* The heap *)

Addresses ==
    {"plan0", "ideas0", "edit0", "sugg0", "chat0",
     "plan1", "ideas1", "edit1", "sugg1", "chat1"}

EmptyHeap == [a \in Addresses |-> Free]

NoDict == [k |-> "nodict"]

\* request.get_json(): the objects the parser allocates for currentProject
ParseTop(p) ==
    [p EXCEPT !.plan = IF @.k = "dict" THEN Ref("plan0") ELSE @,
              !.edit = IF @.k = "dict" THEN Ref("edit0") ELSE @,
              !.chatHistory = IF @.k = "list" THEN Ref("chat0") ELSE @]

ParseHeap(p) ==
    [a \in Addresses |->
        CASE a = "plan0" /\ p.plan.k = "dict" ->
                [p.plan EXCEPT !.ideas = IF @.k = "list" THEN Ref("ideas0") ELSE @]
          [] a = "ideas0" /\ p.plan.k = "dict" /\ p.plan.ideas.k = "list" ->
                p.plan.ideas
          [] a = "edit0" /\ p.edit.k = "dict" ->
                [p.edit EXCEPT !.suggestions = IF @.k = "list" THEN Ref("sugg0") ELSE @]
          [] a = "sugg0" /\ p.edit.k = "dict" /\ p.edit.suggestions.k = "list" ->
                p.edit.suggestions
          [] a = "chat0" /\ p.chatHistory.k = "list" -> p.chatHistory
          [] OTHER -> Free]

Deref(v, h) == IF v.k = "ref" THEN h[v.a] ELSE v

\* jsonify(): the JSON content of a dict, its nested objects followed
ToJson(top, h) ==
    [top EXCEPT
        !.plan = LET o == Deref(@, h) IN
                 IF o.k = "dict" THEN [o EXCEPT !.ideas = Deref(@, h)] ELSE o,
        !.edit = LET o == Deref(@, h) IN
                 IF o.k = "dict" THEN [o EXCEPT !.suggestions = Deref(@, h)] ELSE o,
        !.chatHistory = Deref(@, h)]

----------------------------------------------------------------------------
(* State *)

VARIABLES
    agent,            \* app.py: the module-level orchestrator, "ok" or "none"
    pc,               \* where the request being handled stands
    turn,             \* chat requests received so far
    data,             \* chat(): the request body
    user_input,       \* chat(): data.get("userInput", "")
    project,          \* the caller's project: process_chat_message's parameter
    modified_project, \* the dict _apply_tool_calls_to_project builds
    heap,             \* the nested dicts and lists
    current_phase,    \* the key of the agent selected, "none" before
    project_context,  \* the context text built for the model
    prev_context,     \* the context text of the call before
    result,           \* what agent.invoke returned
    response,         \* what chat() answered
    returned,         \* the project of the last response, kept by the caller
    modelCalls,       \* calls of agent.invoke so far
    input0,           \* history: the project's content when the turn began
    session0,         \* history: the first project the caller sent
    nIdea,            \* history: add_idea invocations with an idea, this turn
    nComment,         \* history: add_comment invocations with both arguments
    nIgnored,         \* history: invocations with a required argument missing
    raised            \* history: the exception process_chat_message caught

vars ==
    <<agent, pc, turn, data, user_input, project, modified_project, heap,
      current_phase, project_context, prev_context, result, response, returned,
      modelCalls, input0, session0, nIdea, nComment, nIgnored, raised>>

None == [k |-> "none"]
Wrap(p) == [k |-> "project", p |-> p]
EmptyDict == [k |-> "emptydict"]

NoReply == [k |-> "absent", v |-> ""]
Text(s) == [k |-> "text", v |-> s]

\* line 328: "I encountered an error while processing your request: " + str(e)
ErrorReply(exc) == [k |-> "error", v |-> exc]

\* str(e) of the exceptions process_chat_message catches
StrHasNoGet == "'str' object has no attribute 'get'"
NoneHasNoAppend == "'NoneType' object has no attribute 'append'"
UnhashableList == "unhashable type: 'list'"
ModelFailed == "the model call failed"

DefaultReply == "I'm sorry, I couldn't process your request."
FixedReply ==
    "The AI Writing Assistant service is not properly configured. Please contact your administrator."

NoResponse ==
    [status |-> 0, fields |-> {}, error |-> "", assistantReply |-> NoReply,
     project |-> None]

NoResult == [output |-> Absent, has_steps |-> FALSE]

UserInputs == {Absent, EmptyStr, Num, Str("hi")}

\* The request bodies a caller holding the projects ps can send
Bodies(ps) ==
    {[k |-> "unparsable", userInput |-> Absent, currentProject |-> Absent],
     [k |-> "empty", userInput |-> Absent, currentProject |-> Absent]}
    \cup [k : {"object"}, userInput : UserInputs,
          currentProject : {Absent, EmptyDict}]
    \cup [k : {"object"}, userInput : UserInputs \ {Str("hi")},
          currentProject : {Wrap(SomeProject)}]
    \cup [k : {"object"}, userInput : {Str("hi")},
          currentProject : {Wrap(p) : p \in ps}]

\* What the caller sends as currentProject: the project of the last response
\* once it has one.  Sessions of several turns start from SessionStarts.
\* The projects the context builders are called on
ContextProjects ==
    [k : {"dict"}, title : {Absent, EmptyStr, Str("T")},
     description : {Absent, Str("D")},
     brainstormIdeas : {Absent, NonList, List(<<>>), List(<<Str("a"), Str("b")>>)},
     outline : {Absent, Str("O")},
     content : {Absent} \cup {[k |-> "str", v |-> "C", len |-> n] :
                                 n \in {ContentLimit, ContentLimit + 1}},
     extra : {Str("X")}, currentPhase : PhaseValues,
     plan : {Absent} \cup {[k |-> "dict", outline |-> Str("O"), ideas |-> l] :
                              l \in IdeaLists},
     edit : {Absent},
     chatHistory : {Absent} \cup MessageLists]

Sendable ==
    CASE returned.k # "project" -> Projects
      [] session0.p \in SessionStarts -> {returned.p}
      [] OTHER -> {}

Init ==
    /\ agent \in {"ok", "none"}
    /\ pc = "idle"
    /\ turn = 0
    /\ data = None
    /\ user_input = Absent
    /\ project = NoDict
    /\ modified_project = NoDict
    /\ heap = EmptyHeap
    /\ current_phase = "none"
    /\ project_context = None
    /\ prev_context = None
    /\ result = NoResult
    /\ response = NoResponse
    /\ returned = None
    /\ modelCalls = 0
    /\ input0 = None
    /\ session0 = None
    /\ nIdea = 0
    /\ nComment = 0
    /\ nIgnored = 0
    /\ raised = "none"

----------------------------------------------------------------------------
(* app.py: chat() *)

Respond(st, flds, err, rep, proj) ==
    [status |-> st, fields |-> flds, error |-> err, assistantReply |-> rep,
     project |-> proj]

\* request.get_json(): the parsed body, None, or an exception
get_json(body) == IF body.k = "unparsable" THEN {"none", "raise"} ELSE {"data"}

\* data.get(key, default)
Get(v, default) == IF v.k = "absent" THEN default ELSE v

\* Validate with the check of lines 90-94 left out
ValidateWithoutAgentCheck(body, got, ag) ==
    LET ui == Get(body.userInput, EmptyStr)
        proj == Get(body.currentProject, EmptyDict)
    IN  CASE got = "raise" ->
                [status |-> 500, fields |-> {"error"}, error |-> "Internal server error",
                 assistantReply |-> NoReply, project |-> None]
          [] got = "none" \/ body.k = "empty" ->
                [status |-> 400, fields |-> {"error"}, error |-> "No data provided",
                 assistantReply |-> NoReply, project |-> None]
          [] ui.k = "num" ->
                [status |-> 500, fields |-> {"error"}, error |-> "Internal server error",
                 assistantReply |-> NoReply, project |-> None]
          [] ~Truthy(ui) ->
                [status |-> 400, fields |-> {"error", "assistantReply"},
                 error |-> "No userInput provided",
                 assistantReply |-> Text("Please provide a message."), project |-> None]
          [] proj.k = "emptydict" ->
                [status |-> 400, fields |-> {"error", "assistantReply"},
                 error |-> "No currentProject provided",
                 assistantReply |-> Text("Project data is required."), project |-> None]
          [] OTHER -> NoResponse

\* chat(), lines 64-94 and 111-115: the answer to a request that is not
\* handed to the orchestrator; NoResponse when it is handed on
Validate(body, got, ag) ==
    LET ui == Get(body.userInput, EmptyStr)
        proj == Get(body.currentProject, EmptyDict)
    IN  CASE got = "raise" ->
                Respond(500, {"error"}, "Internal server error", NoReply, None)
          [] got = "none" \/ body.k = "empty" ->
                Respond(400, {"error"}, "No data provided", NoReply, None)
          [] ui.k = "num" ->
                Respond(500, {"error"}, "Internal server error", NoReply, None)
          [] ~Truthy(ui) ->
                Respond(400, {"error", "assistantReply"}, "No userInput provided",
                        Text("Please provide a message."), None)
          [] proj.k = "emptydict" ->
                Respond(400, {"error", "assistantReply"}, "No currentProject provided",
                        Text("Project data is required."), None)
          [] ag = "none" ->
                Respond(500, {"error", "assistantReply"}, "AI service not available",
                        Text(FixedReply), None)
          [] OTHER -> NoResponse

\* the per-request variables of a request that never reaches the orchestrator
NoTurn ==
    /\ project' = NoDict
    /\ modified_project' = NoDict
    /\ heap' = EmptyHeap
    /\ current_phase' = "none"
    /\ project_context' = None
    /\ prev_context' = None
    /\ result' = NoResult
    /\ input0' = None
    /\ nIdea' = 0
    /\ nComment' = 0
    /\ nIgnored' = 0
    /\ raised' = "none"

\* chat(), lines 54-94 and 111-115: a request answered by the endpoint itself.
\* The endpoint keeps nothing between requests, so these are explored for the
\* callers that hold no project yet.
ChatRejected(body, got) ==
    /\ pc \in {"idle", "done"}
    /\ turn < MaxTurns
    /\ returned.k = "none"
    /\ got \in get_json(body)
    /\ Validate(body, got, agent).status # 0
    /\ turn' = turn + 1
    /\ data' = body
    /\ user_input' = Get(body.userInput, EmptyStr)
    /\ response' = Validate(body, got, agent)
    /\ pc' = "done"
    /\ NoTurn
    /\ UNCHANGED <<agent, returned, modelCalls, session0>>

\* chat(), lines 54-99: a request handed to process_chat_message
ChatAccepted(body) ==
    /\ pc \in {"idle", "done"}
    /\ turn < MaxTurns
    /\ Validate(body, "data", agent).status = 0
    /\ turn' = turn + 1
    /\ data' = body
    /\ user_input' = body.userInput
    /\ project' = ParseTop(body.currentProject.p)
    /\ heap' = ParseHeap(body.currentProject.p)
    /\ input0' = body.currentProject
    /\ session0' = IF session0.k = "none" THEN body.currentProject ELSE session0
    /\ modified_project' = NoDict
    /\ current_phase' = "none"
    /\ project_context' = None
    /\ prev_context' = None
    /\ result' = NoResult
    /\ response' = NoResponse
    /\ nIdea' = 0
    /\ nComment' = 0
    /\ nIgnored' = 0
    /\ raised' = "none"
    /\ pc' = "prepare"
    /\ UNCHANGED <<agent, returned, modelCalls>>

----------------------------------------------------------------------------
(* agent.py: process_chat_message *)

\* lines 325 and 327-329, then chat() lines 100-109: the reply and the project
\* handed back, serialised into the response
Return(reply, top, h, exc) ==
    /\ response' = Respond(200, {"assistantReply", "project"}, "", reply,
                           Wrap(ToJson(top, h)))
    /\ returned' = Wrap(ToJson(top, h))
    /\ heap' = h
    /\ raised' = exc
    /\ pc' = "done"

\* _extract_chat_history: the exception it raises, "none" when it returns
ExtractRaises(top) ==
    IF top.chatHistory.k = "str" /\ Truthy(top.chatHistory)
    THEN StrHasNoGet ELSE "none"

\* _get_current_phase: project.get("currentPhase", "plan_organize") and the
\* membership test, which hashes the value
PhaseRaises(top) == IF top.currentPhase.k = "list" THEN UnhashableList ELSE "none"

_get_current_phase(top) ==
    LET cur == Get(top.currentPhase, Str("plan_organize"))
    IN  IF cur.k = "str" /\ cur.v \in system_prompts THEN cur.v ELSE "plan_organize"

\* dict.copy(): a new dict holding the same values, nested objects shared
Copy(top) == top

\* line 205: current_phase.replace('_', ' ').title()
TitleCase(phase) ==
    CASE phase = "plan_organize" -> "Plan Organize"
      [] phase = "write" -> "Write"
      [] phase = "edit_revise" -> "Edit Revise"

Part(label, value, cut) == [label |-> label, value |-> value, cut |-> cut]

\* _create_project_context, lines 175-207: the parts joined into the text; the
\* exception of _get_current_phase passes through
_create_project_context(top) ==
    LET title == IF Truthy(top.title)
                 THEN <<Part("Project Title", top.title, FALSE)>> ELSE <<>>
        description == IF Truthy(top.description)
                       THEN <<Part("Project Description", top.description, FALSE)>>
                       ELSE <<>>
        ideas == IF Truthy(top.brainstormIdeas) /\ top.brainstormIdeas.k = "list"
                 THEN <<Part("Current Brainstorm Ideas", top.brainstormIdeas, FALSE)>>
                 ELSE <<>>
        outline == IF Truthy(top.outline)
                   THEN <<Part("Current Outline", top.outline, FALSE)>> ELSE <<>>
        content == IF ~Truthy(top.content) THEN <<>>
                   ELSE IF top.content.len > ContentLimit
                   THEN <<Part("Current Content",
                               [top.content EXCEPT !.len = ContentLimit], TRUE)>>
                   ELSE <<Part("Current Content", top.content, FALSE)>>
        phase == <<Part("Current Phase", Str(TitleCase(_get_current_phase(top))),
                        FALSE)>>
    IN  IF PhaseRaises(top) # "none"
        THEN [k |-> "raised", v |-> PhaseRaises(top)]
        ELSE [k |-> "summary",
              parts |-> title \o description \o ideas \o outline \o content \o phase]

\* line 220: json.dumps raises on a value JSON cannot hold; a project parsed
\* from a JSON body holds none
DumpsRaises(top) == top.k # "dict"

\* _create_full_project_context with chatHistory deleted from the project itself
FullContextInPlace(top, h) ==
    LET context_project == [top EXCEPT !.chatHistory = Absent]
    IN  [text |-> [k |-> "full", json |-> Wrap(ToJson(context_project, h))],
         project |-> context_project]

\* _create_full_project_context: the text, and the caller's dict after the call
_create_full_project_context(top, h) ==
    LET context_project == [Copy(top) EXCEPT !.chatHistory = Absent]
    IN  [text |-> IF DumpsRaises(context_project)
                  THEN _create_project_context(top)
                  ELSE [k |-> "full", json |-> Wrap(ToJson(context_project, h))],
         project |-> top]

\* lines 279-295: history, phase, context, agent
Prepare ==
    /\ pc = "prepare"
    /\ LET exc == IF ExtractRaises(project) # "none" THEN ExtractRaises(project)
                  ELSE PhaseRaises(project)
           built == _create_full_project_context(project, heap)
       IN  IF exc # "none"
           THEN /\ Return(ErrorReply(exc), project, heap, exc)
                /\ UNCHANGED <<project, current_phase, project_context>>
           ELSE /\ current_phase' = _get_current_phase(project)
                /\ project_context' = built.text
                /\ project' = built.project
                /\ pc' = "invoke"
                /\ UNCHANGED <<heap, response, returned, raised>>
    /\ UNCHANGED <<agent, turn, data, user_input, modified_project, prev_context,
                   result, modelCalls, input0, session0, nIdea, nComment, nIgnored>>

\* line 298: agent.invoke raises
InvokeRaises ==
    /\ pc = "invoke"
    /\ modelCalls' = modelCalls + 1
    /\ Return(ErrorReply(ModelFailed), project, heap, ModelFailed)
    /\ UNCHANGED <<agent, turn, data, user_input, project, modified_project,
                   current_phase, project_context, prev_context, result, input0,
                   session0, nIdea, nComment, nIgnored>>

\* lines 298-307 and 228-231: agent.invoke returns; the project is copied.
\* The steps of result["intermediate_steps"] are drawn as the loop reaches them.
Invoke(out, has_steps) ==
    /\ pc = "invoke"
    /\ modelCalls' = modelCalls + 1
    /\ result' = [output |-> out, has_steps |-> has_steps]
    /\ modified_project' = Copy(project)
    /\ pc' = "apply"
    /\ UNCHANGED <<agent, turn, data, user_input, project, heap, current_phase,
                   project_context, prev_context, response, returned, input0,
                   session0, nIdea, nComment, nIgnored, raised>>

----------------------------------------------------------------------------
(* agent.py: _apply_tool_calls_to_project *)

ArgValues == {Absent, EmptyStr, Str("x")}

NotADict == [k |-> "str", idea |-> Absent, content |-> Absent, comment_text |-> Absent]

\* The (action, observation) steps a model result can carry
ToolCalls ==
    [tool : {"add_idea"},
     tool_input : [k : {"dict"}, idea : ArgValues, content : {Absent},
                   comment_text : {Absent}]]
    \cup
    [tool : {"add_comment"},
     tool_input : [k : {"dict"}, idea : {Absent}, content : ArgValues,
                   comment_text : ArgValues]]
    \cup
    [tool : {"add_idea", "add_comment"}, tool_input : {NotADict}]

\* new_idea numbered with the length before the append
NewIdeaOldLength(n, idea) ==
    [id |-> [prefix |-> "ai_idea_", n |-> n - 1], content |-> idea.v,
     location |-> "brainstorm", aiGenerated |-> TRUE]

\* lines 247-252
new_idea(n, idea) ==
    [id |-> [prefix |-> "ai_idea_", n |-> n], content |-> idea.v,
     location |-> "brainstorm", aiGenerated |-> TRUE]

\* lines 267-272
new_suggestion(n, comment_text) ==
    [id |-> [prefix |-> "ai_comment_", n |-> n], content |-> comment_text.v,
     type |-> "comment", aiGenerated |-> TRUE]

\* AddIdea with plan replaced by a new dict holding the new idea alone
AddIdeaOverwrites(s, idea) ==
    [s EXCEPT !.mp.plan = Ref("plan1"),
              !.h["plan1"] = [k |-> "dict", outline |-> Absent, ideas |-> Ref("ideas1")],
              !.h["ideas1"] = List(<<[id |-> [prefix |-> "ai_idea_", n |-> 1],
                                      content |-> idea.v, location |-> "brainstorm",
                                      aiGenerated |-> TRUE]>>)]

\* lines 241-253, on the pair s = [mp: modified_project, h: heap]
AddIdea(s, idea) ==
    LET s1 == IF s.mp.plan.k = "absent"
              THEN [s EXCEPT !.mp.plan = Ref("plan1"),
                             !.h["plan1"] = [k |-> "dict", outline |-> Absent,
                                             ideas |-> Absent]]
              ELSE s
        pa == s1.mp.plan.a
        s2 == IF s1.h[pa].ideas.k = "absent"
              THEN [s1 EXCEPT !.h[pa].ideas = Ref("ideas1"),
                              !.h["ideas1"] = List(<<>>)]
              ELSE s1
        la == s2.h[pa].ideas.a
    IN  [s2 EXCEPT !.h[la].items = Append(@, new_idea(Len(@) + 1, idea))]

\* lines 261-273
AddComment(s, comment_text) ==
    LET s1 == IF s.mp.edit.k = "absent"
              THEN [s EXCEPT !.mp.edit = Ref("edit1"),
                             !.h["edit1"] = [k |-> "dict", draft |-> Absent,
                                             suggestions |-> Absent]]
              ELSE s
        ea == s1.mp.edit.a
        s2 == IF s1.h[ea].suggestions.k = "absent"
              THEN [s1 EXCEPT !.h[ea].suggestions = Ref("sugg1"),
                              !.h["sugg1"] = List(<<>>)]
              ELSE s1
        la == s2.h[ea].suggestions.a
    IN  [s2 EXCEPT !.h[la].items =
                      Append(@, new_suggestion(Len(@) + 1, comment_text))]

\* ApplyStep without the tests of lines 239 and 259
ApplyStepUnchecked(s, call) ==
    IF call.tool = "add_idea"
    THEN AddIdea(s, Get(call.tool_input.idea, EmptyStr))
    ELSE AddComment(s, Get(call.tool_input.comment_text, EmptyStr))

\* lines 236-273: one step of the loop over intermediate_steps
ApplyStep(s, call) ==
    LET idea == Get(call.tool_input.idea, EmptyStr)
        content == Get(call.tool_input.content, EmptyStr)
        comment_text == Get(call.tool_input.comment_text, EmptyStr)
    IN  CASE call.tool = "add_idea" /\ Truthy(idea) -> AddIdea(s, idea)
          [] call.tool = "add_comment" /\ Truthy(content) /\ Truthy(comment_text) ->
                AddComment(s, comment_text)
          [] OTHER -> s

HasIdea(call) ==
    call.tool = "add_idea" /\ Truthy(call.tool_input.idea)

HasComment(call) ==
    /\ call.tool = "add_comment"
    /\ Truthy(call.tool_input.content)
    /\ Truthy(call.tool_input.comment_text)

Processed == nIdea + nComment + nIgnored

\* lines 231-273: the loop reaches a step whose tool_input is a dict
ApplyToolCall(call) ==
    /\ pc = "apply"
    /\ result.has_steps
    /\ Processed < MaxSteps
    /\ call.tool_input.k = "dict"
    /\ LET s == ApplyStep([mp |-> modified_project, h |-> heap], call)
       IN  /\ modified_project' = s.mp
           /\ heap' = s.h
    /\ nIdea' = IF HasIdea(call) THEN nIdea + 1 ELSE nIdea
    /\ nComment' = IF HasComment(call) THEN nComment + 1 ELSE nComment
    /\ nIgnored' = IF HasIdea(call) \/ HasComment(call) THEN nIgnored ELSE nIgnored + 1
    /\ pc' = "apply"
    /\ UNCHANGED <<agent, turn, data, user_input, project, current_phase,
                   project_context, prev_context, result, response, returned,
                   modelCalls, input0, session0, raised>>

\* lines 238 and 257: tool_input is a string, .get raises
ApplyToolCallRaises(call) ==
    /\ pc = "apply"
    /\ result.has_steps
    /\ Processed < MaxSteps
    /\ call.tool_input.k # "dict"
    /\ Return(ErrorReply(StrHasNoGet), project, heap, StrHasNoGet)
    /\ UNCHANGED <<agent, turn, data, user_input, project, modified_project,
                   current_phase, project_context, prev_context, result,
                   modelCalls, input0, session0, nIdea, nComment, nIgnored>>

\* line 304
ai_response == IF result.output.k = "absent" THEN DefaultReply ELSE result.output.v

\* AppendChat with the reply appended before the user's message
AppendChatReplyFirst(s, ui, reply) ==
    LET s1 == IF s.mp.chatHistory.k = "absent"
              THEN [s EXCEPT !.mp.chatHistory = Ref("chat1"),
                             !.h["chat1"] = List(<<>>)]
              ELSE s
        ca == s1.mp.chatHistory.a
    IN  [s1 EXCEPT !.h[ca].items =
                      @ \o <<[role |-> "assistant", content |-> reply],
                             [role |-> "user", content |-> ui.v]>>]

\* lines 310-323, on the pair s = [mp: modified_project, h: heap]
AppendChat(s, ui, reply) ==
    LET s1 == IF s.mp.chatHistory.k = "absent"
              THEN [s EXCEPT !.mp.chatHistory = Ref("chat1"),
                             !.h["chat1"] = List(<<>>)]
              ELSE s
        ca == s1.mp.chatHistory.a
    IN  [s1 EXCEPT !.h[ca].items =
                      @ \o <<[role |-> "user", content |-> ui.v],
                             [role |-> "assistant", content |-> reply]>>]

\* lines 275 and 309-329: the loop is over; the two chat entries, and what is
\* returned
Finish ==
    /\ pc = "apply"
    /\ IF modified_project.chatHistory.k \notin {"absent", "ref"}
       THEN /\ Return(ErrorReply(NoneHasNoAppend), project, heap, NoneHasNoAppend)
            /\ UNCHANGED modified_project
       ELSE LET s == AppendChat([mp |-> modified_project, h |-> heap], user_input,
                                ai_response)
            IN  /\ modified_project' = s.mp
                /\ Return(Text(ai_response), s.mp, s.h, "none")
    /\ UNCHANGED <<agent, turn, data, user_input, project, current_phase,
                   project_context, prev_context, result, modelCalls, input0,
                   session0, nIdea, nComment, nIgnored>>

Next ==
    \/ \E body \in Bodies(Sendable) :
          \E got \in {"none", "raise", "data"} : ChatRejected(body, got)
    \/ \E body \in Bodies(Sendable) : ChatAccepted(body)
    \/ Prepare
    \/ InvokeRaises
    \/ \E out \in {Absent, Str("reply")}, has_steps \in BOOLEAN :
          Invoke(out, has_steps)
    \/ \E call \in ToolCalls : ApplyToolCall(call)
    \/ \E call \in ToolCalls : ApplyToolCallRaises(call)
    \/ Finish

Spec == Init /\ [][Next]_vars

----------------------------------------------------------------------------
(* The context builders called on their own *)

ContextInit ==
    /\ agent = "ok"
    /\ pc = "context"
    /\ turn = 0
    /\ data = None
    /\ user_input = Absent
    /\ \E p \in ContextProjects :
          /\ project = ParseTop(p)
          /\ heap = ParseHeap(p)
          /\ input0 = Wrap(p)
    /\ modified_project = NoDict
    /\ current_phase = "none"
    /\ project_context = None
    /\ prev_context = None
    /\ result = NoResult
    /\ response = NoResponse
    /\ returned = None
    /\ modelCalls = 0
    /\ session0 = None
    /\ nIdea = 0
    /\ nComment = 0
    /\ nIgnored = 0
    /\ raised = "none"

\* a call of _create_full_project_context(project)
CallFullContext ==
    /\ pc = "context"
    /\ turn < MaxCalls
    /\ turn' = turn + 1
    /\ prev_context' = project_context
    /\ project_context' = _create_full_project_context(project, heap).text
    /\ project' = _create_full_project_context(project, heap).project
    /\ UNCHANGED <<agent, pc, data, user_input, modified_project, heap,
                   current_phase, result, response, returned, modelCalls, input0,
                   session0, nIdea, nComment, nIgnored, raised>>

\* a call of _create_project_context(project)
CallProjectContext ==
    /\ pc = "context"
    /\ turn < MaxCalls
    /\ turn' = turn + 1
    /\ prev_context' = project_context
    /\ project_context' = _create_project_context(project)
    /\ UNCHANGED <<agent, pc, data, user_input, project, modified_project, heap,
                   current_phase, result, response, returned, modelCalls, input0,
                   session0, nIdea, nComment, nIgnored, raised>>

ContextNext == CallFullContext \/ CallProjectContext

ContextSpec == ContextInit /\ [][ContextNext]_vars

----------------------------------------------------------------------------
(* What the properties speak of *)

\* process_chat_message has returned and chat() has answered with its result
Accepted == pc = "done" /\ response.status = 200

InputP == input0.p
Out == response.project.p
Built == ToJson(modified_project, heap)
CallerProject == ToJson(project, heap)

Items(l) == IF l.k = "list" THEN l.items ELSE <<>>
Ideas(p) == IF p.plan.k = "dict" THEN Items(p.plan.ideas) ELSE <<>>
Suggestions(p) == IF p.edit.k = "dict" THEN Items(p.edit.suggestions) ELSE <<>>

IsPrefix(a, b) == Len(a) <= Len(b) /\ SubSeq(b, 1, Len(a)) = a

NewEntries ==
    <<[role |-> "user", content |-> user_input.v],
      [role |-> "assistant", content |-> response.assistantReply.v]>>

AiIdea(n) ==
    [id |-> [prefix |-> "ai_idea_", n |-> n], content |-> "x",
     location |-> "brainstorm", aiGenerated |-> TRUE]

AiSuggestion(n) ==
    [id |-> [prefix |-> "ai_comment_", n |-> n], content |-> "x",
     type |-> "comment", aiGenerated |-> TRUE]

NumberedIdeas(n, count) ==
    IF count = 0 THEN <<>> ELSE [i \in 1..count |-> AiIdea(n + i)]

NumberedSuggestions(n, count) ==
    IF count = 0 THEN <<>> ELSE [i \in 1..count |-> AiSuggestion(n + i)]

----------------------------------------------------------------------------
(* C1 *)

\* C1, as stated: whatever the model call does, the chatHistory of the project
\* returned is the input's chatHistory followed by the user entry and the
\* assistant entry.
C1_AlwaysTwoEntries ==
    Accepted =>
        /\ Out.chatHistory.k = "list"
        /\ Out.chatHistory.items = Items(InputP.chatHistory) \o NewEntries

\* C1, amended: when no step of the turn raises, the chatHistory returned is the
\* input's chatHistory followed by the user entry and the assistant entry; when
\* a step raises, the chatHistory returned is the input's, nothing added.
C1_TwoEntriesUnlessRaised ==
    Accepted =>
        IF raised = "none"
        THEN /\ Out.chatHistory.k = "list"
             /\ Out.chatHistory.items = Items(InputP.chatHistory) \o NewEntries
        ELSE Out.chatHistory = InputP.chatHistory

C1_Witness ==
    /\ Accepted
    /\ raised = "none"
    /\ nIdea > 0
    /\ Len(Items(InputP.chatHistory)) > 0
    /\ Len(Out.chatHistory.items) = Len(Items(InputP.chatHistory)) + 2

----------------------------------------------------------------------------
(* C2 *)

\* C2: when a step of process_chat_message raises, the project returned with
\* the error message has the content the project had when the call began.
C2_ErrorReturnsInput == Accepted /\ raised # "none" => Out = InputP

----------------------------------------------------------------------------
(* C3 *)

\* C3: the k-th add_idea invocation with an idea appends one record numbered
\* n + k to plan.ideas, n the length the list had, and likewise add_comment and
\* edit.suggestions; a missing container is created empty first.
C3_NumberedAppends ==
    modified_project.k = "dict" =>
        /\ Ideas(Built) =
              Ideas(InputP) \o NumberedIdeas(Len(Ideas(InputP)), nIdea)
        /\ Suggestions(Built) =
              Suggestions(InputP)
                 \o NumberedSuggestions(Len(Suggestions(InputP)), nComment)
        /\ nIdea > 0 =>
              /\ Built.plan.k = "dict" /\ Built.plan.ideas.k = "list"
              /\ InputP.plan.k = "absent" => Built.plan.outline = Absent
        /\ nComment > 0 =>
              /\ Built.edit.k = "dict" /\ Built.edit.suggestions.k = "list"
              /\ InputP.edit.k = "absent" => Built.edit.draft = Absent

C3_Witness ==
    /\ Accepted
    /\ raised = "none"
    /\ nIdea = 2
    /\ Len(Ideas(InputP)) = 1
    /\ Out.plan.ideas.items[3].id = [prefix |-> "ai_idea_", n |-> 3]

----------------------------------------------------------------------------
(* C4 *)

\* C4: an invocation with a required argument missing or empty appends nothing
\* and creates no container, the other invocations of the turn are applied, and
\* the turn ends with the model's text as the reply unless something else (a
\* tool_input that is no dict, a chatHistory that is no list) raises.
C4_MissingArgumentIgnored ==
    pc = "done" /\ nIgnored > 0 =>
        /\ Len(Ideas(Built)) = Len(Ideas(InputP)) + nIdea
        /\ Len(Suggestions(Built)) = Len(Suggestions(InputP)) + nComment
        /\ nIdea = 0 => Built.plan = InputP.plan
        /\ nComment = 0 => Built.edit = InputP.edit
        /\ \/ raised = "none"
           \/ raised = StrHasNoGet
           \/ raised = NoneHasNoAppend /\ InputP.chatHistory.k = "null"
        /\ raised = "none" =>
              /\ response.status = 200
              /\ response.assistantReply = Text(ai_response)
              /\ Ideas(Out) = Ideas(Built)
              /\ Suggestions(Out) = Suggestions(Built)

C4_Witness ==
    /\ Accepted
    /\ raised = "none"
    /\ nIgnored > 0
    /\ nIdea > 0
    /\ InputP.edit.k = "absent"
    /\ Out.edit.k = "absent"
    /\ response.assistantReply = Text("reply")

----------------------------------------------------------------------------
(* C5 *)

\* the request the claim is about: no body or one that does not parse, userInput
\* empty or missing, currentProject empty or missing
C5_Case ==
    /\ pc = "done"
    /\ \/ data.k = "unparsable"
       \/ ~Truthy(Get(data.userInput, EmptyStr))
       \/ Get(data.currentProject, EmptyDict).k = "emptydict"

\* C5: such a request is answered with status 400 and a body with both an error
\* field and an assistantReply field, and no model call is made.
C5_RejectedWithBothFields ==
    C5_Case =>
        /\ response.status = 400
        /\ {"error", "assistantReply"} \subseteq response.fields
        /\ modelCalls = 0

----------------------------------------------------------------------------
(* C6 *)

\* C6, as stated: with no orchestrator, every chat request, whatever its body,
\* is answered with status 500 and the fixed message, and no model call is made.
C6_Always500 ==
    agent = "none" /\ pc = "done" =>
        /\ response.status = 500
        /\ response.assistantReply = Text(FixedReply)
        /\ modelCalls = 0

\* the body passes the validation of lines 67-87: a JSON object with a
\* non-empty text userInput and a non-empty currentProject
C6_ValidBody ==
    /\ data.k = "object"
    /\ data.userInput.k = "str" /\ Truthy(data.userInput)
    /\ data.currentProject.k = "project"

\* C6, amended: with no orchestrator, every chat request whose body passes the
\* validation is answered with status 500 and the fixed message, and no model
\* call is ever made, whatever the bodies.
C6_ValidBodies500 ==
    agent = "none" =>
        /\ modelCalls = 0
        /\ pc \in {"idle", "done"}
        /\ pc = "done" /\ C6_ValidBody =>
              /\ response.status = 500
              /\ response.fields = {"error", "assistantReply"}
              /\ response.assistantReply = Text(FixedReply)

C6_Witness ==
    /\ agent = "none"
    /\ pc = "done"
    /\ turn = 2
    /\ C6_ValidBody
    /\ response.status = 500

----------------------------------------------------------------------------
(* C7 *)

ExpectedPhase(p) ==
    IF p.currentPhase.k = "str"
       /\ p.currentPhase.v \in {"plan_organize", "write", "edit_revise"}
    THEN p.currentPhase.v
    ELSE "plan_organize"

\* C7: once the history of a project is extracted, the agent selected is that
\* of the project's currentPhase when it is one of the three phases and that of
\* plan_organize otherwise, and the currentPhase returned is the input's.
C7_PhaseSelection ==
    /\ pc \in {"invoke", "apply"} \/ Accepted
    /\ InputP.chatHistory.k # "str"
    => /\ current_phase = ExpectedPhase(InputP)
       /\ Accepted => Out.currentPhase = InputP.currentPhase

----------------------------------------------------------------------------
(* C8 *)

\* b keeps what a holds: the lists of a are prefixes of those of b, and every
\* other field of a, those inside plan and edit too, has the same value in b
Keeps(a, b) ==
    /\ b.title = a.title
    /\ b.description = a.description
    /\ b.brainstormIdeas = a.brainstormIdeas
    /\ b.outline = a.outline
    /\ b.content = a.content
    /\ b.extra = a.extra
    /\ b.currentPhase = a.currentPhase
    /\ a.plan.k = "dict" =>
          /\ b.plan.k = "dict"
          /\ b.plan.outline = a.plan.outline
          /\ a.plan.ideas.k = "list" =>
                b.plan.ideas.k = "list"
                /\ IsPrefix(a.plan.ideas.items, b.plan.ideas.items)
    /\ a.edit.k = "dict" =>
          /\ b.edit.k = "dict"
          /\ b.edit.draft = a.edit.draft
          /\ a.edit.suggestions.k = "list" =>
                b.edit.suggestions.k = "list"
                /\ IsPrefix(a.edit.suggestions.items, b.edit.suggestions.items)
    /\ IF a.chatHistory.k = "list"
       THEN b.chatHistory.k = "list"
            /\ IsPrefix(a.chatHistory.items, b.chatHistory.items)
       ELSE a.chatHistory.k # "absent" => b.chatHistory = a.chatHistory

\* C8: the project returned keeps what the project sent holds, and what the
\* first project of the session held.
C8_NonDestructive ==
    Accepted => Keeps(InputP, Out) /\ Keeps(session0.p, Out)

C8_Witness ==
    /\ Accepted
    /\ turn = 2
    /\ raised = "none"
    /\ nIdea > 0
    /\ InputP # session0.p
    /\ Len(Ideas(session0.p)) > 0
    /\ Len(Ideas(InputP)) > Len(Ideas(session0.p))
    /\ Len(Ideas(Out)) > Len(Ideas(InputP))

----------------------------------------------------------------------------
(* C9 *)

Variant(text) == IF text.k = "full" THEN "full" ELSE "summary"

\* C9: a context builder leaves the project it is given as it was, chatHistory
\* still in it, and the same builder called again yields the same text.
C9_BuilderLeavesProject ==
    pc = "context" =>
        /\ CallerProject = InputP
        /\ project.chatHistory.k = "absent" <=> InputP.chatHistory.k = "absent"
        /\ /\ prev_context.k # "none"
           /\ Variant(prev_context) = Variant(project_context)
           => prev_context = project_context

C9_Witness ==
    /\ pc = "context"
    /\ turn = 2
    /\ prev_context.k = "full"
    /\ project_context.k = "full"
    /\ Len(Items(InputP.chatHistory)) > 0
    /\ project_context.json.p.chatHistory = Absent
    /\ CallerProject.chatHistory = InputP.chatHistory

----------------------------------------------------------------------------
(* C10 *)

\* C10: after a call that did not raise, the project the caller passed in has
\* the content it had before the call.
C10_CallerProjectUntouched ==
    Accepted /\ raised = "none" => CallerProject = InputP

====
